---- MODULE Spec2Model ----
(***************************************************************************)
(* Model of the Hawk Vite plugin (hawkVitePlugin): plugin construction,    *)
(* the config / transform / writeBundle hooks and the sequential sourcemap *)
(* upload-and-cleanup loop.  JavaScript values are modelled as tagged      *)
(* records so that truthiness, ?? and string conversion are computed the   *)
(* way the runtime computes them.  The release option only travels inside  *)
(* the form body and the generated code and is   left out of the state.       *)
(***************************************************************************)
EXTENDS Integers, Sequences, FiniteSets, TLC

VARIABLES
    opts,              \* the options object handed to hawkVitePlugin
    plugin,            \* "uncalled" | "inert" (returned undefined) | "active"
    hooks,             \* names of the hooks of the returned plugin object
    collectorEndpoint, \* closure variable collectorEndpoint (a JS value)
    removeSourceMaps,  \* closure variable removeSourceMaps (a JS value)
    outDir,            \* closure variable outDir
    sourcemap,         \* build.sourcemap returned by the config hook
    errLog,            \* console.error lines, in order
    bundlesInfo,       \* the artifact listing of the build, in iteration order
    sourceMapFiles,    \* const sourceMapFiles of writeBundle
    idx,               \* position of the for..of loop in sourceMapFiles
    pc,                \* where writeBundle is suspended, or how it ended
    started,           \* asynchronous operations started so far: [op, i]
    settled,           \* asynchronous operations settled so far: [op, i]
    fsFailed,          \* file-system operations that rejected: [op, i]
    fs,                \* paths present on disk
    requests,          \* HTTP POSTs issued, in order
    responses,         \* what the collector answered to each POST, in order
    log,               \* lines printed through log(), in order
    modId,             \* id of the module the bundler is transforming
    origCode,          \* its source before any transform call
    modCode,           \* its current source
    transformCalls     \* number of transform hook calls on that module

pipeVars == <<bundlesInfo, sourceMapFiles, idx, pc, started, settled, fsFailed,
              fs, requests, responses, log>>
setupVars == <<opts, plugin, hooks, collectorEndpoint, removeSourceMaps, errLog>>
modVars == <<modId, origCode, modCode, transformCalls>>
vars == <<setupVars, outDir, sourcemap, pipeVars, modVars>>

(***************************************************************************)
(* Bounds of the model.                                                    *)
(***************************************************************************)
MaxEntries == 3        \* entries of one artifact listing
MaxTransforms == 3     \* transform calls on one module

(***************************************************************************)
(* JavaScript values.                                                      *)
(***************************************************************************)
Undefined == [t |-> "undefined"]
Null == [t |-> "null"]
Str(s) == [t |-> "string", v |-> s]
Bool(b) == [t |-> "boolean", v |-> b]
Num(n) == [t |-> "number", v |-> n]
Obj(f) == [t |-> "object", fields |-> f]

\* ToBoolean, as applied by `!x` and `if (x)`
Truthy(x) ==
    CASE x.t = "undefined" -> FALSE
      [] x.t = "null" -> FALSE
      [] x.t = "string" -> x.v # ""
      [] x.t = "boolean" -> x.v
      [] x.t = "number" -> x.v # 0
      [] OTHER -> TRUE

\* ToString, as applied by template literals and by new Error(x)
JSToString(x) ==
    CASE x.t = "undefined" -> "undefined"
      [] x.t = "null" -> "null"
      [] x.t = "string" -> x.v
      [] x.t = "boolean" -> (IF x.v THEN "true" ELSE "false")
      [] x.t = "number" -> ToString(x.v)
      [] OTHER -> "[object Object]"

\* x is null or undefined: the values ?? skips and property access throws on
Nullish(x) == x.t \in {"undefined", "null"}

\* obj.key for a non-nullish obj
Get(obj, key) ==
    IF obj.t = "object" /\ key \in DOMAIN obj.fields THEN obj.fields[key] ELSE Undefined

\* a ?? b
Coalesce(a, b) == IF Nullish(a) THEN b ELSE a

(***************************************************************************)
(* String helpers.                                                         *)
(***************************************************************************)
EndsWith(s, suffix) ==
    /\ Len(s) >= Len(suffix)
    /\ SubSeq(s, Len(s) - Len(suffix) + 1, Len(s)) = suffix

Includes(s, sub) ==
    \E i \in 1..(Len(s) - Len(sub) + 1) : SubSeq(s, i, i + Len(sub) - 1) = sub

\* positions of s holding one of the characters of seps
SepPositions(s, seps) == {i \in 1..Len(s) : SubSeq(s, i, i) \in seps}

Min(S) == CHOOSE m \in S : \A n \in S : m <= n
Max(S) == CHOOSE m \in S : \A n \in S : m >= n

\* s.split(<one of seps>).shift()
FirstPart(s, seps) ==
    IF SepPositions(s, seps) = {} THEN s
    ELSE SubSeq(s, 1, Min(SepPositions(s, seps)) - 1)

\* s.split('/').pop()
LastPart(s, seps) ==
    IF SepPositions(s, seps) = {} THEN s
    ELSE SubSeq(s, Max(SepPositions(s, seps)) + 1, Len(s))

(***************************************************************************)
(* Inputs: option objects, integration tokens, bundler configurations.     *)
(***************************************************************************)
ValidToken == "eyJpbnRlZ3JhdGlvbklkIjoiYWJjMTIzIn0="

TokenValues ==
    { Undefined,                                \* option left out
      Str(""),                                  \* empty token
      Str("bm90IGpzb24="),                      \* base64 of: not json
      Str("e30="),                              \* base64 of: {}
      Str("eyJpbnRlZ3JhdGlvbklkIjoiIn0="),      \* base64 of: {"integrationId":""}
      Str(ValidToken) }                         \* base64 of: {"integrationId":"abc123"}

EndpointValues == {Undefined, Str("https://collector.example/release")}

RemoveValues == {Undefined, Bool(TRUE), Bool(FALSE)}

Options ==
    [token : TokenValues, removeSourceMaps : RemoveValues, collectorEndpoint : EndpointValues]

ConfigValues == {Obj(<<>>), Obj([build |-> Obj([outDir |-> Str("build")])])}

\* Buffer.from(token, 'base64').toString('utf-8') on the tokens above
Base64Decode(s) ==
    CASE s = "bm90IGpzb24=" -> "not json"
      [] s = "e30=" -> "{}"
      [] s = "eyJpbnRlZ3JhdGlvbklkIjoiIn0=" -> "{\"integrationId\":\"\"}"
      [] s = ValidToken -> "{\"integrationId\":\"abc123\"}"
      [] OTHER -> ""

\* JSON.parse(text): the parsed value, or a thrown SyntaxError
JSONParse(text) ==
    CASE text = "{}" -> [threw |-> FALSE, value |-> Obj(<<>>)]
      [] text = "{\"integrationId\":\"\"}" ->
            [threw |-> FALSE, value |-> Obj([integrationId |-> Str("")])]
      [] text = "{\"integrationId\":\"abc123\"}" ->
            [threw |-> FALSE, value |-> Obj([integrationId |-> Str("abc123")])]
      [] OTHER -> [threw |-> TRUE, value |-> Undefined]

(***************************************************************************)
(* getIntegrationId: the integration id of a token, or undefined after     *)
(* console.error when any step of the try block throws.                    *)
(***************************************************************************)
GetIntegrationId(integrationToken) ==
    LET decodedIntegrationTokenAsString == Base64Decode(integrationToken.v)
        parsed == JSONParse(decodedIntegrationTokenAsString)
        integrationId == Get(parsed.value, "integrationId")
        threw == \/ parsed.threw
                 \/ Nullish(parsed.value)        \* TypeError on property access
                 \/ ~Truthy(integrationId)
                 \/ integrationId = Str("")
    IN  IF threw
        THEN [value |-> Undefined, errors |-> <<"Invalid Integration token">>]
        ELSE [value |-> integrationId, errors |-> <<>>]

\* variant: if (token === undefined)
TokenMissingUndefinedOnly(token) == token = Undefined

\* if (!token)
TokenMissing(token) == ~Truthy(token)

\* removeSourceMaps = true  (default of the destructured parameter)
DefaultTrue(x) == IF x.t = "undefined" THEN Bool(TRUE) ELSE x

\* `https://${integrationId}.k1.hawk.so/release`
DerivedEndpoint(integrationId) ==
    Str("https://" \o JSToString(integrationId) \o ".k1.hawk.so/release")

AllHooks == {"config", "resolveId", "load", "transform", "writeBundle"}

(***************************************************************************)
(* hawkVitePlugin(opts)                                                    *)
(***************************************************************************)
HawkVitePlugin ==
    /\ plugin = "uncalled"
    /\ removeSourceMaps' = DefaultTrue(opts.removeSourceMaps)
    /\ IF TokenMissing(opts.token)
       THEN /\ errLog' = Append(errLog, "Invalid integration token specified.")
            /\ plugin' = "inert"
            /\ hooks' = {}
            /\ collectorEndpoint' = opts.collectorEndpoint
            /\ outDir' = outDir
       ELSE /\ IF ~Truthy(opts.collectorEndpoint)
               THEN LET id == GetIntegrationId(opts.token)
                    IN  /\ collectorEndpoint' = DerivedEndpoint(id.value)
                        /\ errLog' = errLog \o id.errors
               ELSE /\ collectorEndpoint' = opts.collectorEndpoint
                    /\ errLog' = errLog
            /\ plugin' = "active"
            /\ hooks' = AllHooks
            /\ outDir' = "dist"
    /\ UNCHANGED <<opts, sourcemap, pipeVars, modVars>>

(***************************************************************************)
(* config hook                                                             *)
(***************************************************************************)
Config(config) ==
    /\ "config" \in hooks
    /\ sourcemap = Undefined              \* called once, before the build
    /\ pc = "idle"
    /\ outDir' = IF Truthy(Get(config, "build")) /\ Truthy(Get(Get(config, "build"), "outDir"))
                 THEN Get(Get(config, "build"), "outDir").v
                 ELSE outDir
    /\ sourcemap' = IF Truthy(removeSourceMaps) THEN Str("hidden") ELSE Bool(TRUE)
    /\ UNCHANGED <<setupVars, pipeVars, modVars>>

(***************************************************************************)
(* Inputs of the build: emitted artifacts and the outcomes of the file     *)
(* system and of the collector.                                            *)
(***************************************************************************)
Artifacts ==
    { [fileName |-> "assets/index.js",     type |-> "chunk"],
      [fileName |-> "assets/index.js.map", type |-> "asset"],
      [fileName |-> "sw.js.map",           type |-> "asset"],
      [fileName |-> "legacy.map",          type |-> "chunk"],
      [fileName |-> "sitemap",             type |-> "asset"] }

\* Object.values(bundlesInfo): the bundle is keyed by file name, so names are distinct
Listings ==
    {b \in UNION {[1..n -> Artifacts] : n \in 0..MaxEntries} :
        \A j, k \in DOMAIN b : j # k => b[j].fileName # b[k].fileName}

ReadOutcomes == {"ok", "error"}
UnlinkOutcomes == {"ok", "error"}
FetchOutcomes == {"response", "rejected"}

\* what response.json() resolves to, or the SyntaxError it rejects with
JsonOutcomes ==
    { [threw |-> TRUE, value |-> Undefined] } \cup
    { [threw |-> FALSE, value |-> v] : v \in
        { Null,
          Obj(<<>>),
          Obj([error |-> Num(0), message |-> Str("ignored")]),
          Obj([error |-> Bool(TRUE)]),
          Obj([error |-> Bool(TRUE), message |-> Str("bad file")]),
          Obj([error |-> Str("E42"), message |-> Null]),
          Obj([error |-> Bool(TRUE), message |-> Str("")]) } }

(***************************************************************************)
(* utils/log.js                                                            *)
(***************************************************************************)
fgCyan == 36
fgRed == 31
fgGreen == 32

\* '\x1b[' + color + 'm' + msg + '\x1b[0m'  (the escape character written out)
WrapInColor(msg, color) == "\\x1b[" \o ToString(color) \o "m" \o msg \o "\\x1b[0m"

\* log(message, color, skipLineBreak): the printed line; kind and file label the
\* line for the properties and are not printed
LogLine(kind, file, message, color, skipLineBreak) ==
    [kind |-> kind, file |-> file,
     text |-> WrapInColor("Hawk | " \o message \o (IF ~skipLineBreak THEN "\n" ELSE ""), color)]

SentLine(filePath) ==
    LogLine("sent", filePath, filePath \o " - " \o WrapInColor("sent", fgGreen), fgCyan, TRUE)

FailedLine(filePath, message) ==
    LogLine("failed", filePath, "Sending " \o filePath \o " failed: \n\n" \o message, fgRed, FALSE)

DeletedLine(file) ==
    LogLine("deleted", file, "Map " \o file \o " deleted", fgCyan, TRUE)

(***************************************************************************)
(* getSourceMapsFileNames                                                  *)
(***************************************************************************)
\* variant without the type test
IsSourceMapAnyType(item) == EndsWith(item.fileName, ".map")

IsSourceMap(item) == item.type = "asset" /\ EndsWith(item.fileName, ".map")

GetSourceMapsFileNames(info) ==
    LET kept == SelectSeq(info, IsSourceMap)
    IN  [k \in 1..Len(kept) |-> kept[k].fileName]

(***************************************************************************)
(* writeBundle and the functions it awaits.  Every await is a suspension   *)
(* point: an action runs from the settling of the awaited operation to the *)
(* next await.                                                             *)
(***************************************************************************)
Op(op, i) == [op |-> op, i |-> i]

InFlight == started \ settled

\* const filePath = outDir + '/' + file
FilePath(i) == outDir \o "/" \o sourceMapFiles[i]

\* the files the bundler wrote before it calls writeBundle
EmittedPaths(dir, info) == {dir \o "/" \o info[k].fileName : k \in DOMAIN info}

\* the POST of sendSourceMapFile
Request(i) ==
    [ url |-> JSToString(collectorEndpoint),
      method |-> "POST",
      authorization |-> "Bearer " \o JSToString(opts.token),
      filename |-> LastPart(FilePath(i), {"/"}),
      file |-> FilePath(i) ]

\* the for..of loop reaches position i: past the end writeBundle resolves,
\* otherwise sendSourceMapFile is called and suspends on fs.readFile
BeginIteration(files, i, st, se) ==
    /\ idx' = i
    /\ settled' = se
    /\ IF i > Len(files)
       THEN /\ pc' = "done"
            /\ started' = st
       ELSE /\ pc' = "readFile"
            /\ started' = st \cup {Op("send", i), Op("readFile", i)}

\* variants of the loop body after sendSourceMapFile: the delete not awaited,
\* the delete done whatever removeSourceMaps says, the delete skipped for a
\* file whose upload was logged as failed
AfterSendNoAwait(i, se) ==
    IF Truthy(removeSourceMaps)
    THEN BeginIteration(sourceMapFiles, i + 1, started \cup {Op("unlink", i)}, se)
    ELSE BeginIteration(sourceMapFiles, i + 1, started, se)

AfterSendAlwaysDelete(i, se) ==
    /\ pc' = "unlink"
    /\ idx' = idx
    /\ started' = started \cup {Op("unlink", i)}
    /\ settled' = se

AfterSendDeleteOnSuccess(i, se) ==
    IF Truthy(removeSourceMaps) /\ log'[Len(log')].kind = "sent"
    THEN /\ pc' = "unlink"
         /\ idx' = idx
         /\ started' = started \cup {Op("unlink", i)}
         /\ settled' = se
    ELSE BeginIteration(sourceMapFiles, i + 1, started, se)

\* sendSourceMapFile has returned for file i:
\*   if (removeSourceMaps) { await deleteSourceMapFile(filePath); }
AfterSend(i, se) ==
    IF Truthy(removeSourceMaps)
    THEN /\ pc' = "unlink"
         /\ idx' = idx
         /\ started' = started \cup {Op("unlink", i)}
         /\ settled' = se
    ELSE BeginIteration(sourceMapFiles, i + 1, started, se)

\* variant without the try/catch: the error leaves sendSourceMapFile
OnUploadErrorRethrows(i, message, se) ==
    /\ pc' = "rejected"
    /\ settled' = se
    /\ UNCHANGED <<idx, started, log>>

\* catch (error) { log(... + error.message, fgRed) }, after which
\* sendSourceMapFile returns normally
OnUploadError(i, message, se) ==
    /\ log' = Append(log, FailedLine(FilePath(i), message))
    /\ AfterSend(i, se)

\* new Error(x).message
ErrorMessage(x) == IF x.t = "undefined" THEN "" ELSE JSToString(x)

\* variant that reports the error field only: new Error(responseData.error)
ResponseErrorFieldOnly(responseData) == Get(responseData, "error")

\* responseData.message ?? responseData.error ?? 'Untitled error'
ResponseError(responseData) ==
    Coalesce(Get(responseData, "message"),
             Coalesce(Get(responseData, "error"), Str("Untitled error")))

WriteBundle(info) ==
    /\ "writeBundle" \in hooks
    /\ sourcemap # Undefined
    /\ pc = "idle"
    /\ bundlesInfo' = info
    /\ sourceMapFiles' = GetSourceMapsFileNames(info)
    /\ fs' = EmittedPaths(outDir, info)
    /\ BeginIteration(sourceMapFiles', 1, started, settled)
    /\ UNCHANGED <<setupVars, outDir, sourcemap, fsFailed, requests, responses, log,
                   modVars>>

\* await fs.readFile(filePath) settles; it is outside the try block
ReadFileSettles(outcome) ==
    /\ pc = "readFile"
    /\ outcome = "ok" => FilePath(idx) \in fs
    /\ IF outcome = "error"
       THEN /\ pc' = "rejected"
            /\ fsFailed' = fsFailed \cup {Op("readFile", idx)}
            /\ settled' = settled \cup {Op("readFile", idx), Op("send", idx)}
            /\ UNCHANGED <<started, requests>>
       ELSE /\ pc' = "fetch"
            /\ requests' = Append(requests, Request(idx))
            /\ started' = started \cup {Op("fetch", idx)}
            /\ settled' = settled \cup {Op("readFile", idx)}
            /\ fsFailed' = fsFailed
    /\ UNCHANGED <<setupVars, outDir, sourcemap, bundlesInfo, sourceMapFiles, idx, fs,
                   responses, log, modVars>>

\* await fetch(...) settles
FetchSettles(outcome) ==
    /\ pc = "fetch"
    /\ IF outcome = "rejected"
       THEN /\ responses' = Append(responses, [kind |-> "rejected", body |-> Undefined])
            /\ OnUploadError(idx, "fetch failed",
                             settled \cup {Op("fetch", idx), Op("send", idx)})
       ELSE /\ pc' = "json"
            /\ started' = started \cup {Op("json", idx)}
            /\ settled' = settled \cup {Op("fetch", idx)}
            /\ UNCHANGED <<idx, log, responses>>
    /\ UNCHANGED <<setupVars, outDir, sourcemap, bundlesInfo, sourceMapFiles, fsFailed, fs,
                   requests, modVars>>

\* await response.json() settles
JsonSettles(outcome) ==
    /\ pc = "json"
    /\ responses' = Append(responses, [kind |-> IF outcome.threw THEN "notjson" ELSE "body",
                                       body |-> outcome.value])
    /\ LET se == settled \cup {Op("json", idx), Op("send", idx)}
           responseData == outcome.value
       IN  IF outcome.threw
           THEN OnUploadError(idx, "Unexpected token < in JSON at position 0", se)
           ELSE IF Nullish(responseData)
           THEN OnUploadError(idx, "Cannot read properties of null (reading 'error')", se)
           ELSE IF Truthy(Get(responseData, "error"))
           THEN OnUploadError(idx, ErrorMessage(ResponseError(responseData)), se)
           ELSE /\ log' = Append(log, SentLine(FilePath(idx)))
                /\ AfterSend(idx, se)
    /\ UNCHANGED <<setupVars, outDir, sourcemap, bundlesInfo, sourceMapFiles, fsFailed, fs,
                   requests, modVars>>

\* await fs.unlink(file) of deleteSourceMapFile settles
UnlinkSettles(outcome) ==
    /\ \E o \in InFlight :
        /\ o.op = "unlink"
        /\ outcome = "ok" => FilePath(o.i) \in fs
        /\ LET awaited == pc = "unlink" /\ idx = o.i
           IN  IF outcome = "error"
               THEN /\ fsFailed' = fsFailed \cup {o}
                    /\ settled' = settled \cup {o}
                    /\ pc' = IF awaited THEN "rejected" ELSE pc
                    /\ UNCHANGED <<idx, started, fs, log>>
               ELSE /\ fs' = fs \ {FilePath(o.i)}
                    /\ log' = Append(log, DeletedLine(FilePath(o.i)))
                    /\ fsFailed' = fsFailed
                    /\ IF awaited
                       THEN BeginIteration(sourceMapFiles, o.i + 1, started, settled \cup {o})
                       ELSE /\ settled' = settled \cup {o}
                            /\ UNCHANGED <<pc, idx, started>>
    /\ UNCHANGED <<setupVars, outDir, sourcemap, bundlesInfo, sourceMapFiles, requests,
                   responses, modVars>>

InitPipe ==
    /\ plugin = "uncalled"
    /\ hooks = {}
    /\ collectorEndpoint = Undefined
    /\ removeSourceMaps = Undefined
    /\ outDir = ""
    /\ sourcemap = Undefined
    /\ errLog = <<>>
    /\ bundlesInfo = <<>>
    /\ sourceMapFiles = <<>>
    /\ idx = 0
    /\ pc = "idle"
    /\ started = {}
    /\ settled = {}
    /\ fsFailed = {}
    /\ fs = {}
    /\ requests = <<>>
    /\ responses = <<>>
    /\ log = <<>>

InitModule ==
    /\ modId = ""
    /\ origCode = ""
    /\ modCode = ""
    /\ transformCalls = 0

Init ==
    /\ opts \in Options
    /\ InitPipe
    /\ InitModule

Next ==
    \/ HawkVitePlugin
    \/ \E config \in ConfigValues : Config(config)
    \/ \E info \in Listings : WriteBundle(info)
    \/ \E outcome \in ReadOutcomes : ReadFileSettles(outcome)
    \/ \E outcome \in FetchOutcomes : FetchSettles(outcome)
    \/ \E outcome \in JsonOutcomes : JsonSettles(outcome)
    \/ \E outcome \in UnlinkOutcomes : UnlinkSettles(outcome)

Spec == Init /\ [][Next]_vars

(***************************************************************************)
(* transform hook.  The module's code is a string; MagicString.append is   *)
(* concatenation (the generated source map is not modelled).               *)
(***************************************************************************)
virtualModuleId == "virtual:hawk/globals"

\* '\0' + virtualModuleId  (the NUL character written out)
resolvedVirtualModuleId == "\\0" \o virtualModuleId

scriptExt == {".js", ".ts", ".jsx", ".tsx", ".mjs"}

\* id.split(/[?|#]/).shift()
PureId(id) == FirstPart(id, {"?", "|", "#"})

\* variant that tests the id with its query and hash
IsScriptWholeId(id) == \E ext \in scriptExt : EndsWith(id, ext)

\* !!scriptExt.find(ext => pureId.endsWith(ext))
IsScript(id) == \E ext \in scriptExt : EndsWith(PureId(id), ext)

\* the code returned by transform(code, id), or undefined
TransformResult(code, id) ==
    IF id = resolvedVirtualModuleId THEN Undefined
    ELSE IF Includes(id, "node_modules") THEN Undefined
    ELSE IF ~IsScript(id) THEN Undefined
    ELSE Str(code \o "\n\n;import \"" \o virtualModuleId \o "\";")

ModuleIds ==
    { resolvedVirtualModuleId,
      "/app/src/main.js",
      "/app/src/App.tsx?v=1",
      "/app/src/util.mjs#frag",
      "/app/src/a|b.jsx",
      "/app/src/Comp.vue?lang.ts",
      "/app/src/style.css",
      "/app/node_modules/vue/index.mjs" }

ModuleSources ==
    { "",
      "console.log(1)",
      "import \"virtual:hawk/globals\";\nmain()" }

\* the bundler applies the hook to the module's current code; a call that
\* returns undefined leaves the code as it is
Transform ==
    /\ "transform" \in hooks
    /\ transformCalls < MaxTransforms
    /\ transformCalls' = transformCalls + 1
    /\ LET result == TransformResult(modCode, modId)
       IN  modCode' = IF result = Undefined THEN modCode ELSE result.v
    /\ UNCHANGED <<setupVars, outDir, sourcemap, pipeVars, modId, origCode>>

InitTransform ==
    /\ opts \in Options
    /\ InitPipe
    /\ modId \in ModuleIds
    /\ origCode \in ModuleSources
    /\ modCode = origCode
    /\ transformCalls = 0

NextTransform ==
    \/ HawkVitePlugin
    \/ Transform

SpecTransform == InitTransform /\ [][NextTransform]_vars

(***************************************************************************)
(* Properties.                                                             *)
(***************************************************************************)
Files == 1..Len(sourceMapFiles)

\* POSTs issued for file i
Attempts(i) == {k \in DOMAIN requests : requests[k].file = FilePath(i)}

\* log lines of one kind about one path
Lines(kind, path) == {k \in DOMAIN log : log[k].kind = kind /\ log[k].file = path}

\* writeBundle's promise has settled
Ended == pc \in {"done", "rejected"}

\* C1: when no collectorEndpoint override is given and the token does not
\* decode to a non-empty integrationId, no HTTP POST is ever issued.
C1_NoUploadWithoutEndpoint ==
    ( /\ ~Truthy(opts.collectorEndpoint)
      /\ Truthy(opts.token)
      /\ GetIntegrationId(opts.token).value = Undefined )
    => requests = <<>>

\* the three upload failures of sendSourceMapFile's try block
UploadFailed(r) ==
    \/ r.kind = "rejected"
    \/ r.kind = "notjson"
    \/ r.kind = "body" /\ r.body.t = "object" /\ "error" \in DOMAIN r.body.fields
                       /\ Truthy(r.body.fields.error)

\* C2: a failed upload (fetch rejects, body is not JSON, truthy error field)
\* never aborts the loop: no file is posted twice, every failed upload leaves
\* exactly one failure line about its file and no exception, writeBundle
\* rejects only after a file-system error, and when it resolves every
\* discovered file has had exactly one upload attempt.
C2_UploadFailureIsolated ==
    /\ \A i \in Files : Cardinality(Attempts(i)) <= 1
    /\ \A k \in DOMAIN responses :
          UploadFailed(responses[k]) =>
             /\ Cardinality(Lines("failed", requests[k].file)) = 1
             /\ Lines("sent", requests[k].file) = {}
    /\ pc = "rejected" => fsFailed # {}
    /\ (pc = "done" \/ fsFailed = {}) =>
          \A i \in Files : (i < idx \/ pc = "done") => Cardinality(Attempts(i)) = 1

C2_Witness ==
    /\ pc = "done"
    /\ Len(sourceMapFiles) = 2
    /\ Len(responses) = 2
    /\ responses[1].kind = "rejected"
    /\ responses[2].kind = "body" /\ responses[2].body = Obj([error |-> Bool(TRUE), message |-> Str("bad file")])
    /\ Lines("failed", FilePath(1)) # {}
    /\ Lines("failed", FilePath(2)) # {}

\* C3: a file-system error on one sourcemap is isolated to that file: for a
\* plugin built from a valid token, the promise of writeBundle never rejects,
\* and once it has settled every discovered file has been read for upload.
C3_FsErrorIsolated ==
    opts.token = Str(ValidToken) =>
        /\ pc # "rejected"
        /\ Ended => \A i \in Files : Op("readFile", i) \in started

\* C4: with removeSourceMaps true, every discovered sourcemap the loop has
\* finished with (all of them once writeBundle resolves) had its upload step
\* return and is gone from disk, whether the upload was sent or failed.
C4_DeletedAfterUpload ==
    Truthy(removeSourceMaps) =>
        \A i \in Files :
            (i < idx \/ pc = "done") =>
                /\ Op("send", i) \in settled
                /\ FilePath(i) \notin fs
                /\ Cardinality(Lines("deleted", FilePath(i))) = 1

C4_Witness ==
    /\ Truthy(removeSourceMaps)
    /\ pc = "done"
    /\ Len(sourceMapFiles) = 2
    /\ Lines("sent", FilePath(1)) # {}
    /\ Lines("failed", FilePath(2)) # {}
    /\ FilePath(1) \notin fs
    /\ FilePath(2) \notin fs

\* C5: with removeSourceMaps false the pipeline deletes nothing: the files
\* on disk are always the files the build emitted.
C5_NothingDeletedWhenDisabled ==
    (plugin = "active" /\ ~Truthy(removeSourceMaps)) =>
        /\ fs = EmittedPaths(outDir, bundlesInfo)
        /\ \A o \in started : o.op # "unlink"
        /\ \A k \in DOMAIN log : log[k].kind # "deleted"

C5_Witness ==
    /\ plugin = "active"
    /\ ~Truthy(removeSourceMaps)
    /\ pc = "done"
    /\ Len(sourceMapFiles) = 2
    /\ Lines("sent", FilePath(1)) # {}
    /\ Lines("failed", FilePath(2)) # {}
    /\ fs = EmittedPaths(outDir, bundlesInfo)

\* C6: called without a token (missing or empty), hawkVitePlugin logs one
\* error and returns no plugin: no hook exists and nothing is ever decoded,
\* configured, uploaded or deleted.
C6_InertWithoutToken ==
    (plugin # "uncalled" /\ (opts.token = Undefined \/ opts.token = Str(""))) =>
        /\ plugin = "inert"
        /\ hooks = {}
        /\ errLog = <<"Invalid integration token specified.">>
        /\ sourcemap = Undefined
        /\ pc = "idle"
        /\ started = {}
        /\ requests = <<>>
        /\ log = <<>>
        /\ fs = {}

C6_Witness ==
    /\ plugin = "inert"
    /\ opts.token = Str("")
    /\ errLog = <<"Invalid integration token specified.">>

\* an entry of the listing that is an asset whose name ends in ".map"
MapAsset(item) ==
    /\ item.type = "asset"
    /\ Len(item.fileName) >= 4
    /\ SubSeq(item.fileName, Len(item.fileName) - 3, Len(item.fileName)) = ".map"

\* position of a file name in the listing
PositionOf(name) == CHOOSE k \in DOMAIN bundlesInfo : bundlesInfo[k].fileName = name

\* C7: getSourceMapsFileNames returns exactly the file names of the asset
\* entries ending in ".map", once each, in the listing's order; chunks and
\* other assets are left out and an empty listing gives an empty result.
C7_DiscoveryExact ==
    pc # "idle" =>
        /\ \A k \in DOMAIN bundlesInfo :
              MapAsset(bundlesInfo[k]) <=>
                  \E j \in Files : sourceMapFiles[j] = bundlesInfo[k].fileName
        /\ \A j \in Files : \E k \in DOMAIN bundlesInfo :
              bundlesInfo[k].fileName = sourceMapFiles[j]
        /\ \A j1, j2 \in Files :
              j1 < j2 => PositionOf(sourceMapFiles[j1]) < PositionOf(sourceMapFiles[j2])
        /\ bundlesInfo = <<>> => sourceMapFiles = <<>>

C7_Witness ==
    /\ pc # "idle"
    /\ Len(bundlesInfo) = 3
    /\ bundlesInfo[1].fileName = "sw.js.map"
    /\ bundlesInfo[2].fileName = "legacy.map"
    /\ bundlesInfo[3].fileName = "assets/index.js.map"
    /\ sourceMapFiles = <<"sw.js.map", "assets/index.js.map">>

\* occurrences of the import of the virtual module in a source text
ImportText == "import \"virtual:hawk/globals\""

CountImports(code) ==
    Cardinality({k \in 1..Len(code) :
                    /\ k + Len(ImportText) - 1 <= Len(code)
                    /\ SubSeq(code, k, k + Len(ImportText) - 1) = ImportText})

\* the module ids of the model that are script modules outside node_modules
ScriptModuleIds ==
    {"/app/src/main.js", "/app/src/App.tsx?v=1", "/app/src/util.mjs#frag"}

\* C8 as stated: a module that already imports virtual:hawk/globals is
\* excluded, so no module ever carries a second import.
C8_NoSecondImport == CountImports(modCode) <= 1

\* C8 as amended: every transform call on a script module appends exactly
\* one import, also when the code already imports the virtual module (its
\* own output included); only the resolved virtual module, node_modules
\* files and non-script ids are left as they are.
C8_OneImportPerCall ==
    IF modId \in ScriptModuleIds
    THEN /\ CountImports(modCode) = CountImports(origCode) + transformCalls
         /\ Len(modCode) = Len(origCode) + transformCalls * (Len(ImportText) + 4)
         /\ SubSeq(modCode, 1, Len(origCode)) = origCode
    ELSE modCode = origCode

C8_Witness ==
    /\ modId = "/app/src/App.tsx?v=1"
    /\ origCode = "console.log(1)"
    /\ transformCalls = 2
    /\ CountImports(modCode) = 2

\* the operations of sendSourceMapFile for one file
SendOps == {"send", "readFile", "fetch", "json"}

\* C9: the loop handles one file at a time in discovery order: nothing of
\* file i+1 starts before the upload of file i has settled and, when
\* removeSourceMaps is true, before its delete has settled; a file's delete
\* starts only after that file's own upload attempt has settled; at most
\* one I/O operation is in flight.
C9_OneFileAtATime ==
    /\ \A o \in started :
          (o.op \in SendOps /\ o.i > 1) =>
              /\ Op("send", o.i - 1) \in settled
              /\ Truthy(removeSourceMaps) => Op("unlink", o.i - 1) \in settled
    /\ \A o \in started :
          o.op = "unlink" =>
              /\ Op("fetch", o.i) \in settled
              /\ Op("send", o.i) \in settled
    /\ Cardinality({o \in InFlight : o.op # "send"}) <= 1

C9_Witness ==
    /\ Truthy(removeSourceMaps)
    /\ Op("fetch", 2) \in InFlight
    /\ Op("unlink", 1) \in settled
    /\ FilePath(1) \notin fs

\* the text log() prints for a failed upload of path with the given message
FailureText(path, message) ==
    "\\x1b[31mHawk | Sending " \o path \o " failed: \n\n" \o message \o "\n\\x1b[0m"

\* the message the claim expects for a response object with a truthy error
ExpectedMessage(body) ==
    IF "message" \in DOMAIN body.fields /\ body.fields.message.t \notin {"undefined", "null"}
    THEN JSToString(body.fields.message)
    ELSE JSToString(body.fields.error)

====
